---- MODULE Spec2Model ----
(***************************************************************************)
(* AoikPickChar bootstrap layer: aoikpickchar/__main__.py (main,           *)
(* run_setup_syspath, check_deps) and aoikpickchar/main_init.py            *)
(* (setup_syspath).                                                        *)
(*                                                                         *)
(* A Python string is a sequence of atoms: the characters "/", ":", "."    *)
(* and whole file names ("p", "aoikpickchardep", ...), which behave like   *)
(* single characters that are none of the three.  The posixpath functions  *)
(* and str.split / str.join are computed on these sequences as the         *)
(* library computes them on characters.                                    *)
(***************************************************************************)
EXTENDS Integers, Sequences, FiniteSets

----------------------------------------------------------------------------
(* Strings and posixpath *)

SLASH == "/"
PATHSEP == ":"
DOT == <<".">>
DOTDOT == <<".", ".">>
EMPTY == <<>>

Range(s) == {s[i] : i \in 1..Len(s)}

\* str.split(sep): always at least one piece; ''.split(sep) == ['']
RECURSIVE Split(_, _)
Split(s, sep) ==
    IF \A i \in 1..Len(s) : s[i] # sep
    THEN <<s>>
    ELSE LET i == CHOOSE k \in 1..Len(s) :
                      s[k] = sep /\ \A j \in 1..(k - 1) : s[j] # sep
         IN <<SubSeq(s, 1, i - 1)>> \o Split(SubSeq(s, i + 1, Len(s)), sep)

\* sep.join(list)
RECURSIVE Join(_, _)
Join(l, sep) ==
    IF Len(l) = 0 THEN EMPTY
    ELSE IF Len(l) = 1 THEN l[1]
    ELSE l[1] \o <<sep>> \o Join(Tail(l), sep)

\* os.path.isabs
IsAbs(p) == Len(p) > 0 /\ p[1] = SLASH

\* os.path.join(a, b)
PathJoin(a, b) ==
    IF IsAbs(b) THEN b
    ELSE IF Len(a) = 0 \/ a[Len(a)] = SLASH THEN a \o b
    ELSE a \o <<SLASH>> \o b

\* number of leading slashes kept by normpath: 0, 1, or 2 (exactly two)
InitialSlashes(p) ==
    IF ~IsAbs(p) THEN 0
    ELSE IF Len(p) >= 2 /\ p[2] = SLASH /\ ~(Len(p) >= 3 /\ p[3] = SLASH) THEN 2
    ELSE 1

\* one iteration of normpath's loop over the components
NormStep(new_comps, comp, initial_slashes) ==
    IF comp = EMPTY \/ comp = DOT THEN new_comps
    ELSE IF \/ comp # DOTDOT
            \/ (initial_slashes = 0 /\ Len(new_comps) = 0)
            \/ (Len(new_comps) > 0 /\ new_comps[Len(new_comps)] = DOTDOT)
         THEN Append(new_comps, comp)
    ELSE IF Len(new_comps) > 0 THEN SubSeq(new_comps, 1, Len(new_comps) - 1)
    ELSE new_comps

RECURSIVE NormComps(_, _, _)
NormComps(comps, new_comps, initial_slashes) ==
    IF Len(comps) = 0 THEN new_comps
    ELSE NormComps(Tail(comps),
                   NormStep(new_comps, Head(comps), initial_slashes),
                   initial_slashes)

\* os.path.normpath
NormPath(p) ==
    IF p = EMPTY THEN DOT
    ELSE LET n == InitialSlashes(p)
             body == Join(NormComps(Split(p, SLASH), <<>>, n), SLASH)
             res == [i \in 1..n |-> SLASH] \o body
         IN IF res = EMPTY THEN DOT ELSE res

\* os.path.abspath, with the process working directory wd
AbsPath(p, wd) == NormPath(IF IsAbs(p) THEN p ELSE PathJoin(wd, p))

\* str.rstrip('/')
RECURSIVE RStripSlash(_)
RStripSlash(s) ==
    IF Len(s) > 0 /\ s[Len(s)] = SLASH
    THEN RStripSlash(SubSeq(s, 1, Len(s) - 1))
    ELSE s

\* os.path.dirname
Dirname(p) ==
    LET idx == {k \in 1..Len(p) : p[k] = SLASH}
        i == IF idx = {} THEN 0 ELSE CHOOSE k \in idx : \A j \in idx : j <= k
        head == SubSeq(p, 1, i)
    IN IF head # EMPTY /\ \E k \in 1..Len(head) : head[k] # SLASH
       THEN RStripSlash(head)
       ELSE head

----------------------------------------------------------------------------
(* Python list operations used on sys.path and on the PYTHONPATH entries *)

\* list.remove(x): drops the first occurrence (the caller knows x is in l)
RemoveFirst(l, x) ==
    LET i == CHOOSE k \in 1..Len(l) : l[k] = x /\ \A j \in 1..(k - 1) : l[j] # x
    IN SubSeq(l, 1, i - 1) \o SubSeq(l, i + 1, Len(l))

\* a single l.remove(x), without the enclosing while loop
RemoveAllOcc_Once(l, x) ==
    IF x \notin Range(l) THEN l ELSE RemoveFirst(l, x)

\* while True: try: l.remove(x) / except ValueError: break
RECURSIVE RemoveAllOcc(_, _)
RemoveAllOcc(l, x) ==
    IF x \notin Range(l) THEN l ELSE RemoveAllOcc(RemoveFirst(l, x), x)

\* for path in removing_dir_s: <remove every occurrence>
RECURSIVE RemoveEach(_, _)
RemoveEach(l, removing_dir_s) ==
    IF Len(removing_dir_s) = 0 THEN l
    ELSE RemoveEach(RemoveAllOcc(l, Head(removing_dir_s)), Tail(removing_dir_s))

\* l.insert(0, x) without the membership test
PrependIfAbsent_Always(l, x) == <<x>> \o l

\* if x not in l: l.insert(0, x)
PrependIfAbsent(l, x) == IF x \notin Range(l) THEN <<x>> \o l ELSE l

\* removing_dir_s without the current directory
RemovingDirs_NoCurrent(cur, wd) == <<EMPTY, DOT>>

\* removing_dir_s = ['', '.'] (+ abspath(current_dir) when given)
RemovingDirs(cur, wd) ==
    <<EMPTY, DOT>> \o (IF cur.given THEN <<AbsPath(cur.path, wd)>> ELSE <<>>)

\* os.environ.get('PYTHONPATH', '')
EnvGet(env) == IF env.set THEN env.val ELSE EMPTY

\* the new PYTHONPATH with both directories prepended unconditionally
NewPythonPath_AlwaysPrepend(env, pkg, dep, wd) ==
    LET pythonpath_dir_s == Split(EnvGet(env), PATHSEP)
        abs_dir_s == [i \in 1..Len(pythonpath_dir_s) |->
                          AbsPath(pythonpath_dir_s[i], wd)]
    IN Join(<<dep, pkg>> \o abs_dir_s, PATHSEP)

\* the new PYTHONPATH value computed from the old one
NewPythonPath(env, pkg, dep, wd) ==
    LET pythonpath_dir_s == Split(EnvGet(env), PATHSEP)
        abs_dir_s == [i \in 1..Len(pythonpath_dir_s) |->
                          AbsPath(pythonpath_dir_s[i], wd)]
    IN Join(PrependIfAbsent(PrependIfAbsent(abs_dir_s, pkg), dep), PATHSEP)

----------------------------------------------------------------------------
(* Program constants *)

ExitMissingDep == -100
ExitError == -1
ExitInterrupted == 0

DepDirName == "aoikpickchardep"
PkgDirName == "aoikpickchar"
MainInitName == "main_init.py"
InstallHint == <<"Error: Package PIL is not installed. Try:", "pip install pillow">>
TracebackMsg(e) == <<"Traceback:", e>>

----------------------------------------------------------------------------
(* Bounds and input pools *)

MaxSysPathLen == 2
MaxCalls == 2

P == <<"/", "p">>
PQ == <<"/", "p", ":", "q">>
W == <<"/", "w">>
WX == <<"/", "w", ":", "x">>
Sub(d, name) == d \o <<SLASH, name>>

Cwds == {W, WX}
Roots == {P, PQ, W, WX, Sub(W, "p"), Sub(WX, "p")}
FullDirs == Roots \cup {Sub(r, DepDirName) : r \in Roots}
                  \cup {Sub(r, PkgDirName) : r \in Roots}
AllMainInit == {Sub(Sub(r, PkgDirName), MainInitName) : r \in Roots}

SysPathPool == {EMPTY, DOT, P, Sub(P, DepDirName), Sub(P, PkgDirName), W}
SysPaths == UNION {[1..k -> SysPathPool] : k \in 0..MaxSysPathLen}

NotSet == [set |-> FALSE, val |-> EMPTY]
EnvVal(v) == [set |-> TRUE, val |-> v]
Environs == {NotSet, EnvVal(EMPTY), EnvVal(<<"x">>), EnvVal(P),
             EnvVal(<<"/", "x", "/", ".", ":">>),
             EnvVal(Sub(P, DepDirName) \o <<PATHSEP>> \o P)}

NoDir == [given |-> FALSE, path |-> EMPTY]
Dir(p) == [given |-> TRUE, path |-> p]
PackageRoots == {P, <<"p">>, PQ}
CurrentDirs == {NoDir, Dir(Sub(P, PkgDirName)), Dir(P), Dir(Sub(P, DepDirName)), Dir(DOT)}

MainFiles == {Sub(Sub(P, PkgDirName), "__main__.py"),
              <<PkgDirName, SLASH, "__main__.py">>}
ArgChoices == {"None", "argv"}
InnerRets == {0, 1, 2}
ExcTypes == {"SystemExit", "KeyboardInterrupt", "ImportError", "Exception",
             "GeneratorExit"}

\* the file system: existing directories and existing regular files
SetupWorlds == {[dirs |-> FullDirs, files |-> {}],
                [dirs |-> Roots, files |-> {}],
                [dirs |-> {}, files |-> {}]}
MainWorlds == {[dirs |-> FullDirs, files |-> AllMainInit],
               [dirs |-> Roots \cup {Sub(r, PkgDirName) : r \in Roots},
                files |-> AllMainInit],
               [dirs |-> FullDirs, files |-> {}]}

----------------------------------------------------------------------------
VARIABLES
    sys_path,       \* sys.path
    environ,        \* os.environ['PYTHONPATH']: [set, val]
    cwd,            \* os.getcwd()
    fs,             \* the file system: [dirs, files]
    pc,             \* position of the running code
    caller,         \* who called setup_syspath: "main" or "client"
    file,           \* __file__ of __main__.py
    args,           \* main's args parameter
    arg_package_root, \* the package_root argument of setup_syspath
    arg_current_dir,  \* the current_dir argument: [given, path]
    package_root,   \* setup_syspath's local package_root (normalized)
    dep_root,       \* setup_syspath's dep_root
    exc,            \* the exception in flight: [type, at], at the step
                    \* where it was raised (NoExc when none)
    caught,         \* the exception main caught and did not re-raise
    error_msg,      \* the result of check_deps: <<>> when None
    ret,            \* main's return value: <<>> until main returns, then <<v>>
    stderr,         \* what was written to sys.stderr
    stdout,         \* what was written to sys.stdout
    inner_imported, \* main_inner was imported
    inner_calls,    \* how many times main_inner was called
    inner_args,     \* the arguments main_inner was called with
    inner_ret,      \* what main_inner returned
    ncalls,         \* completed calls of setup_syspath
    before,         \* sys.path and PYTHONPATH when the current call began
    first           \* sys.path and PYTHONPATH when the first call returned

vars == <<sys_path, environ, cwd, fs, pc, caller, file, args,
          arg_package_root, arg_current_dir, package_root, dep_root, exc, caught, error_msg, ret, stderr, stdout,
          inner_imported, inner_calls, inner_args, inner_ret, ncalls,
          before, first>>

mainVars == <<file, args, caught, error_msg, ret, stderr, stdout,
              inner_imported, inner_calls, inner_args, inner_ret>>

NoExc == [type |-> "", at |-> ""]
Exc(e, at) == [type |-> e, at |-> at]

IsDir(p) == p \in fs.dirs
IsFile(p) == p \in fs.files
Snapshot == [path |-> sys_path, env |-> environ]

InitCommon ==
    /\ sys_path \in SysPaths
    /\ environ \in Environs
    /\ cwd \in Cwds
    /\ package_root = EMPTY
    /\ dep_root = EMPTY
    /\ exc = NoExc /\ caught = NoExc /\ error_msg = <<>>
    /\ ret = <<>> /\ stderr = <<>> /\ stdout = <<>>
    /\ inner_imported = FALSE /\ inner_calls = 0
    /\ inner_args = "" /\ inner_ret = <<>>
    /\ ncalls = 0
    /\ before = Snapshot
    /\ first = Snapshot

\* the program is started: main(args) is about to run
Init ==
    /\ InitCommon
    /\ fs \in MainWorlds
    /\ file \in MainFiles
    /\ args \in ArgChoices
    /\ caller = "main"
    /\ pc = "main"
    /\ arg_package_root = EMPTY
    /\ arg_current_dir = NoDir

\* a client calls setup_syspath(package_root, current_dir) directly
InitSetup ==
    /\ InitCommon
    /\ fs \in SetupWorlds
    /\ file = EMPTY
    /\ args = "None"
    /\ caller = "client"
    /\ pc = "ss_remove"
    /\ arg_package_root \in PackageRoots
    /\ arg_current_dir \in CurrentDirs

----------------------------------------------------------------------------
(* setup_syspath *)

\* an exception leaves setup_syspath: into main's try, or out to the client
RaiseFrom(e) ==
    /\ exc' = Exc(e, pc)
    /\ pc' = IF caller = "main" THEN "except" ELSE "raised"

\* removing_dir_s is built and every occurrence of its paths is removed
SetupRemove ==
    /\ pc = "ss_remove"
    /\ sys_path' = RemoveEach(sys_path, RemovingDirs(arg_current_dir, cwd))
    /\ pc' = "ss_pkg"
    /\ UNCHANGED <<environ, cwd, fs, caller, arg_package_root,
                   arg_current_dir, package_root, dep_root, exc, ncalls,
                   before, first>>
    /\ UNCHANGED mainVars

\* package_root is put on sys.path before the directory is asserted to exist
SetupPackageRoot_InsertBeforeAssert ==
    /\ pc = "ss_pkg"
    /\ LET pr == AbsPath(arg_package_root, cwd)
       IN /\ package_root' = pr
          /\ sys_path' = PrependIfAbsent(sys_path, pr)
          /\ IF IsAbs(pr) /\ IsDir(pr)
             THEN pc' = "ss_dep" /\ exc' = exc
             ELSE RaiseFrom("AssertionError")
    /\ UNCHANGED <<environ, cwd, fs, caller, arg_package_root,
                   arg_current_dir, dep_root, ncalls, before, first>>
    /\ UNCHANGED mainVars

\* package_root = abspath(package_root); asserts; prepend to sys.path
SetupPackageRoot ==
    /\ pc = "ss_pkg"
    /\ LET pr == AbsPath(arg_package_root, cwd)
       IN /\ package_root' = pr
          /\ IF IsAbs(pr) /\ IsDir(pr)
             THEN /\ sys_path' = PrependIfAbsent(sys_path, pr)
                  /\ pc' = "ss_dep"
                  /\ exc' = exc
             ELSE /\ RaiseFrom("AssertionError")
                  /\ sys_path' = sys_path
    /\ UNCHANGED <<environ, cwd, fs, caller, arg_package_root,
                   arg_current_dir, dep_root, ncalls, before, first>>
    /\ UNCHANGED mainVars

\* dep_root = abspath(join(package_root, 'aoikpickchardep')); asserts; prepend
SetupDepRoot ==
    /\ pc = "ss_dep"
    /\ LET dr == AbsPath(PathJoin(package_root, <<DepDirName>>), cwd)
       IN /\ dep_root' = dr
          /\ IF IsAbs(dr) /\ IsDir(dr)
             THEN /\ sys_path' = PrependIfAbsent(sys_path, dr)
                  /\ pc' = "ss_env"
                  /\ exc' = exc
             ELSE /\ RaiseFrom("AssertionError")
                  /\ sys_path' = sys_path
    /\ UNCHANGED <<environ, cwd, fs, caller, arg_package_root,
                   arg_current_dir, package_root, ncalls, before, first>>
    /\ UNCHANGED mainVars

\* PYTHONPATH is rewritten and setup_syspath returns
SetupPythonPath ==
    /\ pc = "ss_env"
    /\ environ' = EnvVal(NewPythonPath(environ, package_root, dep_root, cwd))
    /\ ncalls' = ncalls + 1
    /\ pc' = IF caller = "main" THEN "check_deps" ELSE "returned"
    /\ first' = IF ncalls = 0
                THEN [path |-> sys_path, env |-> environ']
                ELSE first
    /\ UNCHANGED <<sys_path, cwd, fs, caller, arg_package_root,
                   arg_current_dir, package_root, dep_root, exc, before>>
    /\ UNCHANGED mainVars

\* the client calls setup_syspath again with the arguments of its first call
CallAgain ==
    /\ pc = "returned"
    /\ ncalls < MaxCalls
    /\ before' = Snapshot
    /\ pc' = "ss_remove"
    /\ UNCHANGED <<sys_path, environ, cwd, fs, caller, arg_package_root,
                   arg_current_dir, package_root, dep_root, exc, ncalls,
                   first>>
    /\ UNCHANGED mainVars

----------------------------------------------------------------------------
(* __main__.py *)

setupVars == <<sys_path, environ, cwd, fs, caller, arg_package_root,
               arg_current_dir, package_root, dep_root, ncalls, before, first>>

\* which except clause of main handles an exception of type e
HandlerFor_ExceptionOnly(e) ==
    IF e \in {"SystemExit", "GeneratorExit"} THEN "reraise"
    ELSE IF e = "KeyboardInterrupt" THEN "interrupted"
    ELSE "traceback"

HandlerFor_NoInterruptClause(e) ==
    IF e = "SystemExit" THEN "reraise" ELSE "traceback"

HandlerFor(e) ==
    IF e = "SystemExit" THEN "reraise"
    ELSE IF e = "KeyboardInterrupt" THEN "interrupted"
    ELSE "traceback"

\* sys.stderr.write(msg)
WriteStdout(msg) == stdout' = Append(stdout, msg) /\ stderr' = stderr

WriteStderr(msg) == stderr' = Append(stderr, msg) /\ stdout' = stdout

\* main: the arguments of the run_setup_syspath call are evaluated
MainStart ==
    /\ pc = "main"
    /\ LET here == Dirname(AbsPath(file, cwd))
       IN /\ arg_package_root' = Dirname(here)
          /\ arg_current_dir' = Dir(here)
    /\ pc' = "rss"
    /\ UNCHANGED <<sys_path, environ, cwd, fs, caller, package_root, dep_root,
                   exc, ncalls, before, first>>
    /\ UNCHANGED mainVars

\* run_setup_syspath up to the delegating call of setup_syspath
RunSetupSyspath ==
    /\ pc = "rss"
    /\ LET pr == AbsPath(arg_package_root, cwd)
           main_init_file_path ==
               PathJoin(PathJoin(pr, <<PkgDirName>>), <<MainInitName>>)
       IN IF IsAbs(pr) /\ IsAbs(main_init_file_path)
             /\ IsFile(main_init_file_path)
          THEN /\ arg_package_root' = pr
               /\ pc' = "ss_remove"
               /\ exc' = exc
          ELSE /\ RaiseFrom("AssertionError")
               /\ arg_package_root' = arg_package_root
    /\ UNCHANGED <<sys_path, environ, cwd, fs, caller, arg_current_dir,
                   package_root, dep_root, ncalls, before, first>>
    /\ UNCHANGED mainVars

\* an exception is raised inside main's try block at the current step;
\* check_deps itself catches an ImportError, and main_inner has its own action
Raise(e) ==
    /\ caller = "main"
    /\ pc \in {"rss", "ss_remove", "ss_pkg", "ss_dep", "ss_env", "check_deps",
               "import_inner"}
    /\ ~(pc = "check_deps" /\ e = "ImportError")
    /\ exc' = Exc(e, pc)
    /\ pc' = "except"
    /\ UNCHANGED setupVars
    /\ UNCHANGED mainVars

\* check_deps() reports the missing package, but main goes on to the import
CheckDeps_FallsThrough(pil_import) ==
    /\ pc = "check_deps"
    /\ IF pil_import = "ImportError"
       THEN /\ error_msg' = InstallHint
            /\ WriteStderr(InstallHint)
       ELSE /\ error_msg' = <<>>
            /\ stderr' = stderr
            /\ stdout' = stdout
    /\ ret' = ret
    /\ pc' = "import_inner"
    /\ UNCHANGED setupVars
    /\ UNCHANGED <<file, args, exc, caught, inner_imported,
                   inner_calls, inner_args, inner_ret>>

\* check_deps() and main's branch on its result; pil_import is the outcome of
\* "import PIL"
CheckDeps(pil_import) ==
    /\ pc = "check_deps"
    /\ IF pil_import = "ImportError"
       THEN /\ error_msg' = InstallHint
            /\ WriteStderr(InstallHint)
            /\ ret' = <<ExitMissingDep>>
            /\ pc' = "done"
       ELSE /\ error_msg' = <<>>
            /\ stderr' = stderr
            /\ stdout' = stdout
            /\ ret' = ret
            /\ pc' = "import_inner"
    /\ UNCHANGED setupVars
    /\ UNCHANGED <<file, args, exc, caught, inner_imported,
                   inner_calls, inner_args, inner_ret>>

\* from aoikpickchar.main_inner import main_inner
ImportMainInner ==
    /\ pc = "import_inner"
    /\ inner_imported' = TRUE
    /\ pc' = "main_inner"
    /\ UNCHANGED setupVars
    /\ UNCHANGED <<file, args, exc, caught, error_msg, ret, stderr, stdout,
                   inner_calls, inner_args, inner_ret>>

\* main_inner(args) is called without "return": main returns None, exit code 0
MainInner_DropsValue(v) ==
    /\ pc = "main_inner"
    /\ inner_calls' = inner_calls + 1
    /\ inner_args' = args
    /\ inner_ret' = <<v>>
    /\ stdout' = Append(stdout, <<"output">>)
    /\ ret' = <<0>>
    /\ pc' = "done"
    /\ UNCHANGED setupVars
    /\ UNCHANGED <<file, args, exc, caught, error_msg, stderr, inner_imported>>

\* return main_inner(args): main_inner returns v
MainInner(v) ==
    /\ pc = "main_inner"
    /\ inner_calls' = inner_calls + 1
    /\ inner_args' = args
    /\ inner_ret' = <<v>>
    /\ stdout' = Append(stdout, <<"output">>)
    /\ ret' = <<v>>
    /\ pc' = "done"
    /\ UNCHANGED setupVars
    /\ UNCHANGED <<file, args, exc, caught, error_msg, stderr, inner_imported>>

\* main_inner(args) raises e
MainInnerRaise(e) ==
    /\ pc = "main_inner"
    /\ inner_calls' = inner_calls + 1
    /\ inner_args' = args
    /\ exc' = Exc(e, pc)
    /\ pc' = "except"
    /\ UNCHANGED setupVars
    /\ UNCHANGED <<file, args, caught, error_msg, ret, stderr, stdout,
                   inner_imported, inner_ret>>

\* except SystemExit: raise
MainReraise ==
    /\ pc = "except"
    /\ HandlerFor(exc.type) = "reraise"
    /\ pc' = "propagated"
    /\ UNCHANGED setupVars
    /\ UNCHANGED <<exc>>
    /\ UNCHANGED mainVars

\* except KeyboardInterrupt: return 0
MainInterrupted ==
    /\ pc = "except"
    /\ HandlerFor(exc.type) = "interrupted"
    /\ caught' = exc
    /\ exc' = NoExc
    /\ ret' = <<ExitInterrupted>>
    /\ pc' = "done"
    /\ UNCHANGED setupVars
    /\ UNCHANGED <<file, args, error_msg, stderr, stdout, inner_imported,
                   inner_calls, inner_args, inner_ret>>

\* except BaseException: write the traceback to sys.stderr, return -1
MainTraceback ==
    /\ pc = "except"
    /\ HandlerFor(exc.type) = "traceback"
    /\ caught' = exc
    /\ exc' = NoExc
    /\ WriteStderr(TracebackMsg(exc.type))
    /\ ret' = <<ExitError>>
    /\ pc' = "done"
    /\ UNCHANGED setupVars
    /\ UNCHANGED <<file, args, error_msg, inner_imported,
                   inner_calls, inner_args, inner_ret>>

Next ==
    \/ MainStart
    \/ RunSetupSyspath
    \/ SetupRemove
    \/ SetupPackageRoot
    \/ SetupDepRoot
    \/ SetupPythonPath
    \/ \E e \in ExcTypes : Raise(e)
    \/ \E pil_import \in {"ok", "ImportError"} : CheckDeps(pil_import)
    \/ ImportMainInner
    \/ \E v \in InnerRets : MainInner(v)
    \/ \E e \in ExcTypes : MainInnerRaise(e)
    \/ MainReraise
    \/ MainInterrupted
    \/ MainTraceback

Spec == Init /\ [][Next]_vars

----------------------------------------------------------------------------
(* Properties of main, checked under Spec *)

\* the exception that reached main's except clauses in this execution
Raised == IF pc = "propagated" THEN exc ELSE caught
MainEnded == pc \in {"done", "propagated"}
Last(q) == q[Len(q)]

\* C1: when check_deps reports that PIL cannot be imported, main writes the
\* install hint to the error stream and returns -100, which differs from the
\* code for unhandled failures, and main_inner is neither imported nor called.
C1_MissingDependency ==
    error_msg = InstallHint =>
        /\ pc = "done"
        /\ ret = <<-100>>
        /\ ret # <<ExitError>>
        /\ stderr = <<InstallHint>>
        /\ stdout = <<>>
        /\ ~inner_imported
        /\ inner_calls = 0

C1_Witness == pc = "done" /\ error_msg = InstallHint /\ ret = <<ExitMissingDep>>

\* C2: every exception other than SystemExit and KeyboardInterrupt that is
\* raised into main at any step is not propagated: main writes a "Traceback:"
\* diagnostic to the error stream and returns -1.
C2_UnhandledFailure ==
    (MainEnded /\ Raised.type \notin {"", "SystemExit", "KeyboardInterrupt"}) =>
        /\ pc = "done"
        /\ ret = <<-1>>
        /\ stderr # <<>>
        /\ Last(stderr) = <<"Traceback:", Raised.type>>

C2_Witness ==
    /\ pc = "done"
    /\ caught = Exc("AssertionError", "ss_dep")
    /\ ret = <<ExitError>>

\* C3: a KeyboardInterrupt raised at any step of main is not propagated and
\* main returns 0.
C3_Interrupted ==
    (MainEnded /\ Raised.type = "KeyboardInterrupt") =>
        /\ pc = "done"
        /\ ret = <<0>>

C3_Witness ==
    /\ pc = "done"
    /\ caught = Exc("KeyboardInterrupt", "ss_pkg")
    /\ ret = <<ExitInterrupted>>

\* C4: when path set-up succeeds, the dependency check passes and main_inner
\* returns without raising, main has called main_inner exactly once with its
\* own args and returns the value of main_inner unchanged, so main returns 0
\* exactly when main_inner does.
C4_Success ==
    (pc = "done" /\ inner_ret # <<>>) =>
        /\ ret = inner_ret
        /\ (ret = <<0>>) <=> (inner_ret = <<0>>)
        /\ inner_calls = 1
        /\ inner_args = args
        /\ caught = NoExc
        /\ error_msg = <<>>
        /\ ncalls = 1

C4_Witness ==
    /\ pc = "done"
    /\ inner_ret = <<2>>
    /\ ret = <<2>>
    /\ args = "argv"
    /\ inner_args = "argv"

\* C5 as stated: every exception that main catches and does not re-raise
\* gives a non-zero return code and a diagnostic on the error stream, none on
\* the success stream.
C5_NeverSilent ==
    (pc = "done" /\ caught # NoExc) =>
        /\ ret # <<0>>
        /\ stderr # <<>>
        /\ \A i \in 1..Len(stdout) : stdout[i] = <<"output">>

\* C5 amended: every exception other than KeyboardInterrupt that main catches
\* and does not re-raise gives a non-zero return code and a traceback on the
\* error stream, none on the success stream; a caught KeyboardInterrupt gives
\* return code 0 and writes nothing.
C5_NeverSilentExceptInterrupt ==
    (pc = "done" /\ caught # NoExc) =>
        IF caught.type = "KeyboardInterrupt"
        THEN ret = <<0>> /\ stderr = <<>>
        ELSE /\ ret # <<0>>
             /\ TracebackMsg(caught.type) \in Range(stderr)
             /\ \A i \in 1..Len(stdout) : stdout[i] = <<"output">>

C5_Witness ==
    /\ pc = "done"
    /\ caught = Exc("Exception", "main_inner")
    /\ stderr = <<TracebackMsg("Exception")>>
    /\ ret = <<ExitError>>

----------------------------------------------------------------------------
(* Properties of setup_syspath, checked under SpecSetup *)

Returned == pc = "returned"
AssertionRaised == pc = "raised" /\ exc.type = "AssertionError"
CurGiven == arg_current_dir.given
CurN == AbsPath(arg_current_dir.path, cwd)
PkgN == AbsPath(arg_package_root, cwd)
DepN == AbsPath(PkgN \o <<SLASH, DepDirName>>, cwd)
Count(l, x) == Cardinality({i \in 1..Len(l) : l[i] = x})

\* the entries of l that the removal step keeps
Kept(l) ==
    LET Keep(e) == e # EMPTY /\ e # DOT /\ (CurGiven => e # CurN)
    IN SelectSeq(l, Keep)

\* the entries of l that are also entries of m, in the order of l
Common(l, m) ==
    LET In(e) == e \in Range(m)
    IN SelectSeq(l, In)

\* C6 as stated: after a normal return sys.path holds no '', no '.' and, when
\* current_dir is given, no normalized current_dir.
C6_Removed ==
    Returned =>
        /\ EMPTY \notin Range(sys_path)
        /\ DOT \notin Range(sys_path)
        /\ CurGiven => CurN \notin Range(sys_path)

\* C6 amended: after a normal return sys.path holds no '', no '.' and, when
\* current_dir is given and its normalized form is neither package_root nor
\* dep_root, no normalized current_dir.
C6_RemovedUnlessRoot ==
    Returned =>
        /\ EMPTY \notin Range(sys_path)
        /\ DOT \notin Range(sys_path)
        /\ (CurGiven /\ CurN \notin {PkgN, DepN}) => CurN \notin Range(sys_path)

C6_Witness ==
    /\ Returned
    /\ ncalls = 1
    /\ CurGiven
    /\ CurN \notin {PkgN, DepN}
    /\ before.path = <<CurN, CurN>>
    /\ sys_path = <<DepN, PkgN>>

\* C7 as stated: after a normal return sys.path holds package_root and
\* dep_root; one that was absent from sys.path before the call is at the
\* front (dep_root, then package_root); one that was present is neither
\* duplicated nor moved; the other remaining entries keep their order.
C7_Prepended ==
    Returned =>
        LET old == before.path
            front == (IF DepN \in Range(old) THEN <<>> ELSE <<DepN>>)
                     \o (IF PkgN \in Range(old) THEN <<>> ELSE <<PkgN>>)
        IN /\ PkgN \in Range(sys_path)
           /\ DepN \in Range(sys_path)
           /\ SubSeq(sys_path, 1, Len(front)) = front
           /\ \A r \in {PkgN, DepN} :
                  r \in Range(old) => Count(sys_path, r) = Count(old, r)
           /\ Common(SubSeq(sys_path, Len(front) + 1, Len(sys_path)), old)
                  = Common(old, sys_path)

\* C7 amended: presence is judged once '', '.' and the normalized current_dir
\* have been removed.  sys.path is the kept entries in their old order,
\* preceded by package_root if it is not among them, preceded by dep_root if
\* it is not among them.
C7_PrependedAfterRemoval ==
    Returned =>
        LET base == Kept(before.path)
        IN sys_path = (IF DepN \in Range(base) THEN <<>> ELSE <<DepN>>)
                      \o (IF PkgN \in Range(base) THEN <<>> ELSE <<PkgN>>)
                      \o base

C7_Witness ==
    /\ Returned
    /\ ncalls = 1
    /\ before.path = <<EMPTY, PkgN>>
    /\ sys_path = <<DepN, PkgN>>

\* C8 as stated: every entry of the new PYTHONPATH is package_root, dep_root
\* or the normalized form of an entry the previous PYTHONPATH listed, and an
\* unset or empty PYTHONPATH becomes exactly dep_root followed by package_root.
C8_PythonPath ==
    Returned =>
        LET old == before.env
            none == ~old.set \/ old.val = EMPTY
            listed == IF none THEN <<>> ELSE Split(old.val, PATHSEP)
            allowed == {PkgN, DepN}
                       \cup {AbsPath(listed[i], cwd) : i \in 1..Len(listed)}
        IN /\ environ.set
           /\ \E l \in UNION {[1..k -> allowed] : k \in 1..(Len(listed) + 2)} :
                  environ.val = Join(l, PATHSEP)
           /\ none => environ.val = Join(<<DepN, PkgN>>, PATHSEP)

\* C9 as stated: when setup_syspath raises an assertion error, sys.path and
\* PYTHONPATH are as they were before the call.
C9_AllOrNothing ==
    AssertionRaised => (sys_path = before.path /\ environ = before.env)

\* C9 amended: when setup_syspath raises an assertion error, PYTHONPATH is as
\* it was before the call; sys.path has lost '', '.' and the normalized
\* current_dir, and has gained package_root at the front when package_root
\* is a directory (dep_root is the one missing) and was not among the kept
\* entries.
C9_FailureState ==
    AssertionRaised =>
        LET base == Kept(before.path)
        IN /\ environ = before.env
           /\ sys_path = (IF IsDir(PkgN) /\ PkgN \notin Range(base)
                          THEN <<PkgN>> ELSE <<>>) \o base

C9_Witness ==
    /\ AssertionRaised
    /\ exc.at = "ss_dep"
    /\ before.path = <<EMPTY, CurN>>
    /\ CurGiven
    /\ sys_path = <<PkgN>>

HasPathSep(p) == PATHSEP \in Range(p)

\* C10 as stated: when the normalized current_dir differs from package_root
\* and dep_root, a second call with the same arguments leaves sys.path and
\* PYTHONPATH as the first call left them.
C10_Idempotent ==
    (Returned /\ ncalls >= 2 /\ (CurGiven => CurN \notin {PkgN, DepN})) =>
        (sys_path = first.path /\ environ = first.env)

\* C10 amended: the same, provided neither the normalized package_root nor
\* the working directory contains os.pathsep.
C10_IdempotentNoPathSep ==
    (/\ Returned
     /\ ncalls >= 2
     /\ CurGiven => CurN \notin {PkgN, DepN}
     /\ ~HasPathSep(PkgN)
     /\ ~HasPathSep(cwd)) =>
        /\ sys_path = first.path
        /\ environ = first.env
        /\ \A r \in {PkgN, DepN} : Count(sys_path, r) = Count(first.path, r)

C10_Witness ==
    /\ Returned
    /\ ncalls = 2
    /\ CurGiven
    /\ CurN \notin {PkgN, DepN}
    /\ ~HasPathSep(PkgN)
    /\ ~HasPathSep(cwd)
    /\ Len(Split(environ.val, PATHSEP)) = 3

NextSetup ==
    \/ SetupRemove
    \/ SetupPackageRoot
    \/ SetupDepRoot
    \/ SetupPythonPath
    \/ CallAgain

SpecSetup == InitSetup /\ [][NextSetup]_vars
====
